---- MODULE Spec2Model ----
(***************************************************************************)
(* Line classification and synonym reconciliation of the oaksoftheworld    *)
(* scraper: parse_line and its five entry parsers, the aggregating fold of *)
(* parse_species_list_html (name_parser.py) and the chain resolver         *)
(* resolve_synonym (parser.py).                                            *)
(*                                                                         *)
(* A line is a sequence of glyphs.  A glyph is a string: a piece of text   *)
(* that the regular expressions of the source treat as a unit ("Alba",     *)
(* "(x)", "=", ":", "see", ","), one whitespace character " ", or a tag    *)
(* ("<a:alba>" stands for <a href="quercus_alba.htm">, "</a>", "<font>").  *)
(* A word is a maximal run of text glyphs, a name is a word, an author is  *)
(* a sequence of words, and the absent author (None) is the empty one.     *)
(***************************************************************************)
EXTENDS Integers, Sequences, FiniteSets, TLC

VARIABLES
    line,              \* parse_line: the line handed to it
    parsed,            \* parse_line: what it returned (entry and notes)
    html,              \* parse_species_list_html: the lines of the page
    line_num,          \* ... the number of lines folded so far
    accepted_species,  \* ... dict name -> record, in insertion order
    synonym_map,       \* ... dict synonym -> list of mappings, in insertion order
    log,               \* utils.log_inconsistency: the notes written so far
    pc,                \* position of the running function
    rmap,              \* resolve_synonym: the synonym_map it walks
    rstart,            \* ... the name of the outermost call
    rname,             \* ... the name of the current call
    visited,           \* ... the visited set of the current walk
    rresult,           \* ... the returned name
    links_map,         \* parse_species_list: dict name -> {url, is_hybrid}
    accepted_species_set  \* ... the lower-cased names of the accepted links

vars == <<line, parsed, html, line_num, accepted_species, synonym_map, log, pc,
          rmap, rstart, rname, visited, rresult, links_map, accepted_species_set>>

-----------------------------------------------------------------------------
(* Bounds *)

MaxTokens == 4
MaxLines == 3
NumNames == 4

-----------------------------------------------------------------------------
(* Glyphs *)

SPACE == " "
CLOSE_A == "</a>"
OTHER_TAG == "<font>"
AnchorGlyphs == {"<a:alba>", "<a:rubra>", "<a:alba.b>"}
TagGlyphs == AnchorGlyphs \cup {CLOSE_A, OTHER_TAG}

\* The part of the href between "quercus_" and the final ".htm", cut at dots.
Href(g) ==
    CASE g = "<a:alba>" -> <<"alba">>
      [] g = "<a:rubra>" -> <<"rubra">>
      [] g = "<a:alba.b>" -> <<"alba", "b">>

\* str.lower() on a glyph.
Lower(g) ==
    CASE g = "Alba" -> "alba"
      [] g = "Mich" -> "mich"
      [] g = "Michx." -> "michx."
      [] g = "X" -> "x"
      [] OTHER -> g

None == <<>>

IsSpace(g) == g = SPACE
IsTag(g) == g \in TagGlyphs

-----------------------------------------------------------------------------
(* Strings as glyph sequences: str.strip, str.split, str.lower *)

RECURSIVE LStrip(_)
LStrip(t) == IF t # <<>> /\ IsSpace(Head(t)) THEN LStrip(Tail(t)) ELSE t

RECURSIVE RStrip(_)
RStrip(t) ==
    IF t # <<>> /\ IsSpace(t[Len(t)]) THEN RStrip(SubSeq(t, 1, Len(t) - 1)) ELSE t

Strip(t) == RStrip(LStrip(t))

\* The first word of t (t does not begin with whitespace).
RECURSIVE FirstWord(_)
FirstWord(t) ==
    IF t = <<>> \/ IsSpace(Head(t)) THEN <<>> ELSE <<Head(t)>> \o FirstWord(Tail(t))

RECURSIVE Split(_)
Split(t) ==
    LET s == LStrip(t)
    IN  IF s = <<>> THEN <<>>
        ELSE LET w == FirstWord(s)
             IN  <<w>> \o Split(SubSeq(s, Len(w) + 1, Len(s)))

LowerWord(w) == [i \in 1..Len(w) |-> Lower(w[i])]

\* ' '.join(words[k:]) if len(words) > k - 1 else None
Rest(words, k) == IF Len(words) >= k THEN SubSeq(words, k, Len(words)) ELSE None

\* The index of the first glyph of t at or after i that is no whitespace.
RECURSIVE SkipSpaces(_, _)
SkipSpaces(t, i) ==
    IF i <= Len(t) /\ IsSpace(t[i]) THEN SkipSpaces(t, i + 1) ELSE i

-----------------------------------------------------------------------------
(* Link Extractor and Text Normalizer *)

BASE_URL == "https://oaksoftheworld.fr/"

\* urljoin(base_url, href)
urljoin(base, href) == <<base, href>>

\* The index of the first </a> of t at or after i, 0 if there is none.
RECURSIVE FindClose(_, _)
FindClose(t, i) ==
    IF i > Len(t) THEN 0
    ELSE IF t[i] = CLOSE_A THEN i ELSE FindClose(t, i + 1)

\* re.sub(r'<[^>]+>', '', text).strip(); no glyph is a character entity, so
\* html.unescape has nothing to decode.
strip_html_tags(text) == Strip(SelectSeq(text, LAMBDA g : ~IsTag(g)))

\* The matches of <a href="(quercus_...htm)">(.*?)</a> in t from index i on.
RECURSIVE LinksFrom(_, _)
LinksFrom(t, i) ==
    IF i > Len(t) THEN <<>>
    ELSE IF t[i] \in AnchorGlyphs
         THEN LET j == FindClose(t, i + 1)
              IN  IF j = 0 THEN <<>>
                  ELSE <<[href |-> t[i],
                          link_text |-> strip_html_tags(SubSeq(t, i + 1, j - 1))]>>
                       \o LinksFrom(t, j + 1)
         ELSE LinksFrom(t, i + 1)

extract_links_from_line(t) == LinksFrom(t, 1)

\* re.search(r'quercus_([^.]+)\.htm', url): the text up to the first dot, when
\* it is not empty and ".htm" follows it.
extract_species_from_url(href) ==
    LET segs == Href(href)
    IN  IF segs[1] # "" /\ (Len(segs) = 1 \/ segs[2] = "htm")
        THEN <<segs[1]>>
        ELSE None

\* The glyphs in which re.search(r'\(x\)|×|x\.') finds a match.
HasMarker(g) == Lower(g) \in {"(x)", "×", "x.", "michx."}

is_hybrid(text) == \E i \in 1..Len(text) : HasMarker(text[i])

-----------------------------------------------------------------------------
(* The separators of the Line Classifier *)

\* re.match of r':\s*see:?\s+' at index i of t: the index after the match,
\* 0 if there is no match at i.
SeeMatchEnd(t, i) ==
    IF t[i] # ":" THEN 0
    ELSE LET j == SkipSpaces(t, i + 1)
         IN  IF j > Len(t) \/ Lower(t[j]) # "see" THEN 0
             ELSE LET k == IF j + 1 <= Len(t) /\ t[j + 1] = ":" THEN j + 2 ELSE j + 1
                  IN  IF k <= Len(t) /\ IsSpace(t[k]) THEN SkipSpaces(t, k) ELSE 0

\* The index where the leftmost match of the "see" separator starts, 0 if none.
SeeStart(t) ==
    LET hits == {i \in 1..Len(t) : SeeMatchEnd(t, i) # 0}
    IN  IF hits = {} THEN 0 ELSE CHOOSE i \in hits : \A h \in hits : i <= h

\* The index of the first "=" of t that whitespace follows, 0 if none:
\* the "=" of the leftmost match of r'\s*=\s+'.
EqualsAt(t) ==
    LET hits == {i \in 1..Len(t) : t[i] = "=" /\ i < Len(t) /\ IsSpace(t[i + 1])}
    IN  IF hits = {} THEN 0 ELSE CHOOSE i \in hits : \A h \in hits : i <= h

\* re.match(r'^\s*(?:<[^>]+>)*\s*<a\s+href="quercus_', line)
StartsWithLink(t) ==
    \E k \in 0..Len(t) :
        /\ \A i \in 1..k : IsTag(t[i])
        /\ LET j == SkipSpaces(t, k + 1)
           IN  j <= Len(t) /\ t[j] \in AnchorGlyphs

-----------------------------------------------------------------------------
(* Entry-Type Parsers.  Each returns the entry (NoEntry for None) and the   *)
(* notes it handed to log_inconsistency.                                    *)

NoEntry == [entry_type |-> "NONE"]

Ret(e, n) == [entry |-> e, notes |-> n]

Entry(type, name, author, url, hybrid, synonyms, raw_line) ==
    [entry_type |-> type, species_name |-> name, author |-> author, url |-> url,
     is_hybrid |-> hybrid, synonyms |-> synonyms, raw_line |-> raw_line]

\* species_from_text.lower() != species_from_url.lower()
Mismatch(text_name, url_name) == LowerWord(text_name) # LowerWord(url_name)

\* parse_accepted_species taking the name from the visible text.
parse_accepted_species_text_name(visible_text, url, species_from_url, raw_line) ==
    LET words == Split(visible_text)
    IN  IF words = <<>> THEN Ret(NoEntry, <<>>)
        ELSE Ret(Entry("ACCEPTED_SPECIES", words[1], Rest(words, 2), url,
                       FALSE, <<>>, raw_line),
                 <<>>)

parse_accepted_species(visible_text, url, species_from_url, raw_line) ==
    LET words == Split(visible_text)
    IN  IF words = <<>> THEN Ret(NoEntry, <<>>)
        ELSE Ret(Entry("ACCEPTED_SPECIES", species_from_url, Rest(words, 2), url,
                       FALSE, <<>>, raw_line),
                 IF Mismatch(words[1], species_from_url)
                 THEN <<"species_name_mismatch">> ELSE <<>>)

\* re.sub(r'\(x\)|x\.', '', text): the glyph without its markers, "" if
\* nothing is left of it.
WithoutMarker(g) ==
    CASE Lower(g) \in {"(x)", "x."} -> ""
      [] g = "Michx." -> "Mich"
      [] OTHER -> g

RemoveMarkers(t) ==
    SelectSeq([i \in 1..Len(t) |-> WithoutMarker(t[i])], LAMBDA g : g # "")

parse_accepted_hybrid(visible_text, url, species_from_url, raw_line) ==
    LET leading == \/ visible_text[1] = "×"
                   \/ /\ Len(visible_text) >= 2
                      /\ Lower(visible_text[1]) = "x"
                      /\ IsSpace(visible_text[2])
        \* re.sub(r'^[×x]\s*', '', visible_text).strip()
        text_after_x == Strip(SubSeq(visible_text, 2, Len(visible_text)))
        text_no_marker == Strip(RemoveMarkers(visible_text))
        words == IF leading THEN Split(text_after_x) ELSE Split(text_no_marker)
        species_from_text == IF words # <<>> THEN words[1] ELSE None
    IN  Ret(Entry("ACCEPTED_HYBRID", species_from_url, Rest(words, 2), url,
                  TRUE, <<>>, raw_line),
            IF species_from_text # None /\ Mismatch(species_from_text, species_from_url)
            THEN <<"hybrid_name_mismatch">> ELSE <<>>)

\* A {name, author} synonym sub-entry; the name None is the empty word.
Syn(name, author) == [name |-> name, author |-> author]

\* parse_synonym_equals taking a leading "x" for the accepted name.
parse_synonym_equals_keeps_x(visible_text, url, species_from_url, raw_line) ==
    LET at == EqualsAt(visible_text)
        synonym_part == Strip(SubSeq(visible_text, 1, at - 1))
        accepted_part ==
            Strip(SubSeq(visible_text, SkipSpaces(visible_text, at + 1), Len(visible_text)))
        synonym_words == Split(synonym_part)
        synonym_name == IF synonym_words # <<>> THEN synonym_words[1] ELSE None
        accepted_words == Split(accepted_part)
        accepted_name_text == IF accepted_words # <<>> THEN accepted_words[1] ELSE None
    IN  IF at = 0 THEN Ret(NoEntry, <<>>)
        ELSE Ret(Entry("SYNONYM_EQUALS", species_from_url, Rest(accepted_words, 2), url,
                       is_hybrid(accepted_part),
                       <<Syn(synonym_name, Rest(synonym_words, 2))>>, raw_line),
                 IF accepted_name_text # None
                    /\ Mismatch(accepted_name_text, species_from_url)
                 THEN <<"synonym_target_mismatch">> ELSE <<>>)

parse_synonym_equals(visible_text, url, species_from_url, raw_line) ==
    LET at == EqualsAt(visible_text)
        synonym_part == Strip(SubSeq(visible_text, 1, at - 1))
        accepted_part ==
            Strip(SubSeq(visible_text, SkipSpaces(visible_text, at + 1), Len(visible_text)))
        synonym_words == Split(synonym_part)
        synonym_name == IF synonym_words # <<>> THEN synonym_words[1] ELSE None
        synonym_author == Rest(synonym_words, 2)
        accepted_words == Split(accepted_part)
        skip_x == /\ accepted_words # <<>>
                  /\ LowerWord(accepted_words[1]) = <<"x">>
                  /\ Len(accepted_words) > 1
        accepted_name_text ==
            IF skip_x THEN accepted_words[2]
            ELSE IF accepted_words # <<>> THEN accepted_words[1] ELSE None
        accepted_author ==
            IF skip_x THEN Rest(accepted_words, 3) ELSE Rest(accepted_words, 2)
    IN  IF at = 0 THEN Ret(NoEntry, <<>>)
        ELSE Ret(Entry("SYNONYM_EQUALS", species_from_url, accepted_author, url,
                       is_hybrid(accepted_part),
                       <<Syn(synonym_name, synonym_author)>>, raw_line),
                 IF accepted_name_text # None
                    /\ Mismatch(accepted_name_text, species_from_url)
                 THEN <<"synonym_target_mismatch">> ELSE <<>>)

\* text.split(','): the pieces of t between its commas.
RECURSIVE SplitComma(_)
SplitComma(t) ==
    LET hits == {i \in 1..Len(t) : t[i] = ","}
    IN  IF hits = {} THEN <<t>>
        ELSE LET i == CHOOSE h \in hits : \A g \in hits : h <= g
             IN  <<SubSeq(t, 1, i - 1)>> \o SplitComma(SubSeq(t, i + 1, Len(t)))

\* SynonymEntries leaving out a name it has taken already.
RECURSIVE SynonymEntries_unique(_)
SynonymEntries_unique(pieces) ==
    IF pieces = <<>> THEN <<>>
    ELSE LET before == SynonymEntries_unique(SubSeq(pieces, 1, Len(pieces) - 1))
             syn_words == Split(Strip(pieces[Len(pieces)]))
         IN  IF syn_words # <<>>
                /\ ~\E i \in 1..Len(before) : before[i].name = syn_words[1]
             THEN Append(before, Syn(syn_words[1], Rest(syn_words, 2)))
             ELSE before

\* The loop over synonyms_part.split(',') of parse_synonym_see.
RECURSIVE SynonymEntries(_)
SynonymEntries(pieces) ==
    IF pieces = <<>> THEN <<>>
    ELSE LET syn == Strip(Head(pieces))
             syn_words == Split(syn)
         IN  (IF syn # <<>> /\ syn_words # <<>>
              THEN <<Syn(syn_words[1], Rest(syn_words, 2))>>
              ELSE <<>>) \o SynonymEntries(Tail(pieces))

parse_synonym_see(visible_text, url, species_from_url, raw_line) ==
    LET at == SeeStart(visible_text)
        synonyms_part == Strip(SubSeq(visible_text, 1, at - 1))
        accepted_part ==
            Strip(SubSeq(visible_text, SeeMatchEnd(visible_text, at), Len(visible_text)))
        accepted_words == Split(accepted_part)
        accepted_name_text == IF accepted_words # <<>> THEN accepted_words[1] ELSE None
    IN  IF at = 0 THEN Ret(NoEntry, <<>>)
        ELSE Ret(Entry("SYNONYM_SEE", species_from_url, Rest(accepted_words, 2), url,
                       is_hybrid(accepted_part),
                       SynonymEntries(SplitComma(synonyms_part)), raw_line),
                 IF accepted_name_text # None
                    /\ Mismatch(accepted_name_text, species_from_url)
                 THEN <<"synonym_target_mismatch">> ELSE <<>>)

\* parse_other_link giving up when the name is not in the text.
parse_other_link_discards(visible_text, url, species_from_url, raw_line) ==
    LET words == Split(visible_text)
        hits == {i \in 1..Len(words) : ~Mismatch(words[i], species_from_url)}
        first == CHOOSE i \in hits : \A h \in hits : i <= h
    IN  IF hits = {} THEN Ret(NoEntry, <<"other_link_name_not_found">>)
        ELSE Ret(Entry("OTHER_LINK", species_from_url, Rest(words, first + 1), url,
                       is_hybrid(visible_text), <<>>, raw_line),
                 <<>>)

parse_other_link(visible_text, url, species_from_url, raw_line) ==
    LET words == Split(visible_text)
        hits == {i \in 1..Len(words) : ~Mismatch(words[i], species_from_url)}
        found == hits # {}
        first == CHOOSE i \in hits : \A h \in hits : i <= h
    IN  Ret(Entry("OTHER_LINK", species_from_url,
                  IF found THEN Rest(words, first + 1) ELSE None, url,
                  is_hybrid(visible_text), <<>>, raw_line),
            IF found THEN <<>> ELSE <<"other_link_name_not_found">>)

-----------------------------------------------------------------------------
(* Line Classifier *)

\* Classify with the "=" test ahead of the "see" test.
Classify_equals_first(visible_text, main_url, species_from_url, ln) ==
    IF EqualsAt(visible_text) # 0
    THEN parse_synonym_equals(visible_text, main_url, species_from_url, ln)
    ELSE IF SeeStart(visible_text) # 0
    THEN parse_synonym_see(visible_text, main_url, species_from_url, ln)
    ELSE IF StartsWithLink(ln)
    THEN IF is_hybrid(visible_text)
         THEN parse_accepted_hybrid(visible_text, main_url, species_from_url, ln)
         ELSE parse_accepted_species(visible_text, main_url, species_from_url, ln)
    ELSE parse_other_link(visible_text, main_url, species_from_url, ln)

\* The branches of parse_line once the species name is known, in the order of
\* the source.
Classify(visible_text, main_url, species_from_url, ln) ==
    IF SeeStart(visible_text) # 0
    THEN parse_synonym_see(visible_text, main_url, species_from_url, ln)
    ELSE IF EqualsAt(visible_text) # 0
    THEN parse_synonym_equals(visible_text, main_url, species_from_url, ln)
    ELSE IF StartsWithLink(ln)
    THEN IF is_hybrid(visible_text)
         THEN parse_accepted_hybrid(visible_text, main_url, species_from_url, ln)
         ELSE parse_accepted_species(visible_text, main_url, species_from_url, ln)
    ELSE parse_other_link(visible_text, main_url, species_from_url, ln)

\* parse_line reporting a line without links.
parse_line_notes_no_link(raw, base_url) ==
    LET ln == Strip(raw)
        links == extract_links_from_line(ln)
        unique_hrefs == {links[i].href : i \in 1..Len(links)}
        multi == IF Cardinality(unique_hrefs) > 1 THEN <<"multiple_links">> ELSE <<>>
        main_href == links[1].href
        species_from_url == extract_species_from_url(main_href)
        r == Classify(strip_html_tags(ln), urljoin(base_url, main_href),
                      species_from_url, ln)
    IN  IF links = <<>> THEN Ret(NoEntry, <<"no_link">>)
        ELSE IF species_from_url = None
        THEN Ret(NoEntry, multi \o <<"no_species_name">>)
        ELSE Ret(r.entry, multi \o r.notes)

\* parse_line taking the last link of the line for the main one.
parse_line_last_link(raw, base_url) ==
    LET ln == Strip(raw)
        links == extract_links_from_line(ln)
        unique_hrefs == {links[i].href : i \in 1..Len(links)}
        multi == IF Cardinality(unique_hrefs) > 1 THEN <<"multiple_links">> ELSE <<>>
        main_href == links[Len(links)].href
        species_from_url == extract_species_from_url(main_href)
        r == Classify(strip_html_tags(ln), urljoin(base_url, main_href),
                      species_from_url, ln)
    IN  IF links = <<>> THEN Ret(NoEntry, <<>>)
        ELSE IF species_from_url = None
        THEN Ret(NoEntry, multi \o <<"no_species_name">>)
        ELSE Ret(r.entry, multi \o r.notes)

parse_line(raw, base_url) ==
    LET ln == Strip(raw)
        links == extract_links_from_line(ln)
        unique_hrefs == {links[i].href : i \in 1..Len(links)}
        multi == IF Cardinality(unique_hrefs) > 1 THEN <<"multiple_links">> ELSE <<>>
        main_href == links[1].href
        species_from_url == extract_species_from_url(main_href)
        r == Classify(strip_html_tags(ln), urljoin(base_url, main_href),
                      species_from_url, ln)
    IN  IF links = <<>> THEN Ret(NoEntry, <<>>)
        ELSE IF species_from_url = None
        THEN Ret(NoEntry, multi \o <<"no_species_name">>)
        ELSE Ret(r.entry, multi \o r.notes)

-----------------------------------------------------------------------------
(* Input lines.  A line is written as a sequence of tokens; consecutive     *)
(* tokens are separated by one space unless the token "+" stands between.   *)
(* "LA", "LR" and "LB" are links with their text, "LZ" is a link to alba    *)
(* without text: parse_line reads the href of a link only, the text of the  *)
(* link is part of the visible text like any other.                         *)

Tokens == {"LA", "LR", "LZ", "LB", "Alba", "rubra", "x", "(x)", "×", "Michx.",
           "=", ",", ":see", "<font>", "+"}

TokenGlyphs(tok) ==
    CASE tok = "LA" -> <<"<a:alba>", "Alba", CLOSE_A>>
      [] tok = "LR" -> <<"<a:rubra>", "rubra", CLOSE_A>>
      [] tok = "LZ" -> <<"<a:alba>", CLOSE_A>>
      [] tok = "LB" -> <<"<a:alba.b>", "Alba", CLOSE_A>>
      [] tok = ":see" -> <<":", SPACE, "see">>
      [] tok = "+" -> <<>>
      [] OTHER -> <<tok>>

RECURSIVE Render(_)
Render(toks) ==
    IF toks = <<>> THEN <<>>
    ELSE TokenGlyphs(Head(toks))
         \o (IF Len(toks) > 1 /\ Head(toks) # "+" /\ toks[2] # "+"
             THEN <<SPACE>> ELSE <<>>)
         \o Render(Tail(toks))

SeqsUpTo(S, n) == UNION {[1..k -> S] : k \in 0..n}

-----------------------------------------------------------------------------
(* parse_species_list of parser.py: the loop over the links of the page     *)
(* that builds links_map.  "<font>" stands for <font size="4">; every href  *)
(* of the model holds "quercus" and ".htm"; no glyph is "Quercus ".         *)

\* The glyphs of t up to its first tag: one text node.
RECURSIVE TextNode(_)
TextNode(t) ==
    IF t = <<>> \/ IsTag(Head(t)) THEN <<>> ELSE <<Head(t)>> \o TextNode(Tail(t))

\* link.get_text(strip=True): the text nodes of the element, each stripped.
RECURSIVE get_text_strip(_)
get_text_strip(inner) ==
    IF inner = <<>> THEN <<>>
    ELSE IF IsTag(Head(inner)) THEN get_text_strip(Tail(inner))
    ELSE LET node == TextNode(inner)
         IN  Strip(node) \o get_text_strip(SubSeq(inner, Len(node) + 1, Len(inner)))

\* text.replace('(x)', '').replace('×', '').strip().split()
clean_words(text) == Split(Strip(SelectSeq(text, LAMBDA g : g \notin {"(x)", "×"})))

\* links_map[clean_name] = info
SetLink(lm, clean_name, info) ==
    IF \E i \in 1..Len(lm) : lm[i].name = clean_name
    THEN [i \in 1..Len(lm) |-> IF lm[i].name = clean_name THEN info ELSE lm[i]]
    ELSE Append(lm, info)

\* The loop "for link in soup.find_all('a', href=True)" from index i of the
\* page t on; split()[0] of a text without words raises IndexError.
RECURSIVE CollectLinksFrom(_, _, _, _, _)
CollectLinksFrom(t, i, lm, aset, base_url) ==
    IF i > Len(t) THEN [links_map |-> lm, accepted_species_set |-> aset, raised |-> FALSE]
    ELSE IF t[i] \notin AnchorGlyphs \/ FindClose(t, i + 1) = 0
    THEN CollectLinksFrom(t, i + 1, lm, aset, base_url)
    ELSE LET j == FindClose(t, i + 1)
             inner == SubSeq(t, i + 1, j - 1)
             has_font_4 == \E k \in 1..Len(inner) : inner[k] = OTHER_TAG
             text == get_text_strip(inner)
             has_hybrid_marker == \E k \in 1..Len(text) : text[k] \in {"(x)", "×"}
             words == clean_words(text)
             clean_name == words[1]
         IN  IF text = <<>> THEN CollectLinksFrom(t, j + 1, lm, aset, base_url)
             ELSE IF words = <<>>
             THEN [links_map |-> lm, accepted_species_set |-> aset, raised |-> TRUE]
             ELSE CollectLinksFrom(t, j + 1,
                      SetLink(lm, clean_name,
                              [name |-> clean_name, url |-> urljoin(base_url, t[i]),
                               is_hybrid |-> has_hybrid_marker]),
                      IF has_font_4 THEN aset \cup {LowerWord(clean_name)} ELSE aset,
                      base_url)

-----------------------------------------------------------------------------
(* parse_line as a step: SpecParse *)

Idle ==
    /\ html = <<>> /\ line_num = 0 /\ accepted_species = <<>> /\ synonym_map = <<>>
    /\ log = <<>>
    /\ rmap = <<>> /\ rstart = "" /\ rname = "" /\ visited = {} /\ rresult = ""
    /\ links_map = <<>> /\ accepted_species_set = {}

\* The lines the pages of the fold are made of.
FoldLineTokens ==
    { <<"LA">>,                                 \* alba
      <<"LA", "rubra">>,                        \* alba, author "rubra"
      <<"LA", "(x)", "Alba">>,                  \* alba (x), author "Alba"
      <<"LR">>,                                 \* rubra
      <<"rubra", "=", "LA">>,                   \* rubra = alba
      <<"rubra", "=", "LR">>,                   \* rubra = rubra
      <<"nigra", "=", "LR">>,                   \* nigra = rubra
      <<"rubra", "Alba", "=", "LR", "(x)">>,    \* rubra Alba = rubra (x)
      <<"rubra", ",", "Alba", ":see", "LA", "rubra">>,  \* rubra, Alba : see alba rubra
      <<"rubra", "LA">>,                        \* link in mid-line
      <<"=", "LA">>,                            \* nothing left of "="
      <<"Alba">>,                               \* no link
      <<"rubra", "=", "Alba">>,                 \* "=" and no link
      <<"LB">> }                                \* link without a species name

\* Lines longer than MaxTokens tokens: links without text, an upper-case "X"
\* after "=", several synonyms left of "see", a hybrid with "×" in the text
\* of its link and "(x)" after it, a link whose text is a marker only, and a
\* link with a font tag in it, an "=" and a "see" statement whose accepted
\* side is the name rubra in a link to the page of alba, and a link with the
\* text "x Alba" that an author follows.
ExampleLineTokens ==
    { <<"<a:alba>", "+", "</a>", "+", "<a:rubra>", "+", "</a>">>,
      <<"rubra", "=", "X", "LA", "rubra", "Alba">>,
      <<"rubra", ",", "Alba", ":see", "LA">>,
      <<"rubra", "Michx.", ",", ",", "rubra", ":see", "LA", "Alba">>,
      <<"<a:alba>", "+", "×", "Alba", "+", "</a>", "(x)", "rubra", "nigra">>,
      <<"<a:alba>", "+", "(x)", "+", "</a>">>,
      <<"<a:alba>", "+", "<font>", "+", "×", "Alba", "+", "</a>", "rubra">>,
      <<"nigra", "=", "<a:alba>", "+", "rubra", "+", "</a>">>,
      <<"nigra", ":see", "<a:alba>", "+", "rubra", "+", "</a>">>,
      <<"<a:alba>", "+", "x", "Alba", "+", "</a>", "rubra">> }

InitParse ==
    /\ \E toks \in SeqsUpTo(Tokens, MaxTokens) \cup ExampleLineTokens \cup FoldLineTokens :
          line = Render(toks)
    /\ parsed = Ret(NoEntry, <<>>)
    /\ pc = "parse_line"
    /\ Idle

ParseLine ==
    /\ pc = "parse_line"
    /\ parsed' = parse_line(line, BASE_URL)
    /\ log' = log \o parsed'.notes
    /\ pc' = "parsed"
    /\ UNCHANGED <<line, html, line_num, accepted_species, synonym_map,
                   rmap, rstart, rname, visited, rresult,
                   links_map, accepted_species_set>>

\* parse_species_list(html, base_url) for the page that is the line, up to
\* the end of its loop over the links.
CollectLinks ==
    /\ pc = "parse_line"
    /\ LET r == CollectLinksFrom(line, 1, <<>>, {}, BASE_URL)
       IN  /\ links_map' = r.links_map
           /\ accepted_species_set' = r.accepted_species_set
           /\ pc' = IF r.raised THEN "raised" ELSE "links_collected"
    /\ UNCHANGED <<line, parsed, html, line_num, accepted_species, synonym_map, log,
                   rmap, rstart, rname, visited, rresult>>

NextParse == ParseLine \/ CollectLinks

SpecParse == InitParse /\ [][NextParse]_vars

-----------------------------------------------------------------------------
(* Aggregator: the fold of parse_species_list_html.  A dict is the sequence *)
(* of its items in insertion order.                                         *)

Has(dict, key) == \E i \in 1..Len(dict) : dict[i].name = key

IndexOf(dict, key) == CHOOSE i \in 1..Len(dict) : dict[i].name = key

\* The record a first sighting creates.
NewRecord(e) ==
    [name |-> e.species_name, author |-> e.author, url |-> e.url,
     is_hybrid |-> e.is_hybrid, synonyms |-> <<>>]

\* MergeAccepted taking author and hybrid flag of the later entry.
MergeAccepted_last_wins(acc, e) ==
    IF ~Has(acc, e.species_name) THEN Append(acc, NewRecord(e))
    ELSE LET i == IndexOf(acc, e.species_name)
         IN  [acc EXCEPT ![i] = [acc[i] EXCEPT !.author = e.author,
                                               !.is_hybrid = e.is_hybrid]]

\* The branch for ACCEPTED_SPECIES and ACCEPTED_HYBRID entries.
MergeAccepted(acc, e) ==
    IF ~Has(acc, e.species_name) THEN Append(acc, NewRecord(e))
    ELSE LET i == IndexOf(acc, e.species_name)
             old == acc[i]
         IN  [acc EXCEPT ![i] =
                 [old EXCEPT
                    !.author = IF e.author # None /\ old.author = None
                               THEN e.author ELSE old.author,
                    !.is_hybrid = IF e.is_hybrid THEN TRUE ELSE old.is_hybrid]]

\* AppendMapping as synonym_map[syn_name] = [item].
AppendMapping_overwrite(smap, syn_name, item) ==
    IF Has(smap, syn_name)
    THEN [smap EXCEPT ![IndexOf(smap, syn_name)].mappings = <<item>>]
    ELSE Append(smap, [name |-> syn_name, mappings |-> <<item>>])

\* AppendMapping leaving a key that has a list as it is.
AppendMapping_keeps_first(smap, syn_name, item) ==
    IF Has(smap, syn_name) THEN smap
    ELSE Append(smap, [name |-> syn_name, mappings |-> <<item>>])

\* synonym_map[syn_name].append({accepted_name, synonym_author}), the list
\* being created when the key is new.
AppendMapping(smap, syn_name, item) ==
    IF Has(smap, syn_name)
    THEN LET i == IndexOf(smap, syn_name)
         IN  [smap EXCEPT ![i].mappings = Append(@, item)]
    ELSE Append(smap, [name |-> syn_name, mappings |-> <<item>>])

\* AddSynonyms without the test "if syn_name".
RECURSIVE AddSynonyms_keeps_empty(_, _, _)
AddSynonyms_keeps_empty(smap, syns, species_name) ==
    IF syns = <<>> THEN smap
    ELSE AddSynonyms_keeps_empty(
             AppendMapping(smap, Head(syns).name,
                           [accepted_name |-> species_name,
                            synonym_author |-> Head(syns).author]),
             Tail(syns), species_name)

\* The loop over parsed['synonyms'].
RECURSIVE AddSynonyms(_, _, _)
AddSynonyms(smap, syns, species_name) ==
    IF syns = <<>> THEN smap
    ELSE LET syn == Head(syns)
             next == IF syn.name # None
                     THEN AppendMapping(smap, syn.name,
                                        [accepted_name |-> species_name,
                                         synonym_author |-> syn.author])
                     ELSE smap
         IN  AddSynonyms(next, Tail(syns), species_name)

\* EnsureRecord left out.
EnsureRecord_skip(acc, e) == acc

\* EnsureRecord updating a record as the branch for accepted entries does.
EnsureRecord_merges(acc, e) == MergeAccepted(acc, e)

\* EnsureRecord adding a record whether the name has one or not.
EnsureRecord_appends(acc, e) == Append(acc, NewRecord(e))

\* "Make sure the accepted species exists".
EnsureRecord(acc, e) ==
    IF Has(acc, e.species_name) THEN acc ELSE Append(acc, NewRecord(e))

\* One iteration of the loop over the lines, for the entry parse_line gave.
FoldEntry(acc, smap, e) ==
    IF e = NoEntry THEN [acc |-> acc, smap |-> smap]
    ELSE IF e.entry_type \in {"ACCEPTED_SPECIES", "ACCEPTED_HYBRID"}
    THEN [acc |-> MergeAccepted(acc, e), smap |-> smap]
    ELSE IF e.entry_type \in {"SYNONYM_EQUALS", "SYNONYM_SEE", "OTHER_LINK"}
    THEN [acc |-> EnsureRecord(acc, e),
          smap |-> AddSynonyms(smap, e.synonyms, e.species_name)]
    ELSE [acc |-> acc, smap |-> smap]

\* AttachMappings for the first mapping of the synonym only.
AttachMappings_first_only(acc, syn_name, mappings) ==
    IF mappings = <<>> THEN acc
    ELSE LET m == Head(mappings)
         IN  IF Has(acc, m.accepted_name)
             THEN [acc EXCEPT ![IndexOf(acc, m.accepted_name)].synonyms =
                      Append(@, Syn(syn_name, m.synonym_author))]
             ELSE acc

\* The inner loop of "Build synonym lists": the mappings of one synonym.
RECURSIVE AttachMappings(_, _, _)
AttachMappings(acc, syn_name, mappings) ==
    IF mappings = <<>> THEN acc
    ELSE LET m == Head(mappings)
             next == IF Has(acc, m.accepted_name)
                     THEN [acc EXCEPT ![IndexOf(acc, m.accepted_name)].synonyms =
                              Append(@, Syn(syn_name, m.synonym_author))]
                     ELSE acc
         IN  AttachMappings(next, syn_name, Tail(mappings))

\* "Build synonym lists for each accepted species".
RECURSIVE BuildSynonymLists(_, _)
BuildSynonymLists(acc, smap) ==
    IF smap = <<>> THEN acc
    ELSE BuildSynonymLists(AttachMappings(acc, Head(smap).name, Head(smap).mappings),
                           Tail(smap))

-----------------------------------------------------------------------------
(* parse_species_list_html, one loop iteration a step: SpecFold *)

FoldLines == {Render(toks) : toks \in FoldLineTokens}

InitFold ==
    /\ html \in SeqsUpTo(FoldLines, MaxLines)
    /\ line_num = 0
    /\ accepted_species = <<>>
    /\ synonym_map = <<>>
    /\ log = <<>>
    /\ line = <<>>
    /\ parsed = Ret(NoEntry, <<>>)
    /\ pc = "fold"
    /\ rmap = <<>> /\ rstart = "" /\ rname = "" /\ visited = {} /\ rresult = ""
    /\ links_map = <<>> /\ accepted_species_set = {}

\* for line_num, line in enumerate(lines, 1): ...
FoldLine ==
    /\ pc = "fold"
    /\ line_num < Len(html)
    /\ LET r == parse_line(html[line_num + 1], BASE_URL)
           f == FoldEntry(accepted_species, synonym_map, r.entry)
       IN  /\ line' = html[line_num + 1]
           /\ parsed' = r
           /\ log' = log \o r.notes
           /\ accepted_species' = f.acc
           /\ synonym_map' = f.smap
    /\ line_num' = line_num + 1
    /\ UNCHANGED <<html, pc, rmap, rstart, rname, visited, rresult,
                   links_map, accepted_species_set>>

\* The code after the loop, up to the return.
Finish ==
    /\ pc = "fold"
    /\ line_num = Len(html)
    /\ accepted_species' = BuildSynonymLists(accepted_species, synonym_map)
    /\ pc' = "done"
    /\ UNCHANGED <<line, parsed, html, line_num, synonym_map, log,
                   rmap, rstart, rname, visited, rresult,
                   links_map, accepted_species_set>>

NextFold == FoldLine \/ Finish

SpecFold == InitFold /\ [][NextFold]_vars

\* parse_species_list_html(html, base_url) as a function of the lines.
RECURSIVE FoldLinesFrom(_, _, _)
FoldLinesFrom(acc, smap, lines) ==
    IF lines = <<>> THEN [acc |-> acc, smap |-> smap]
    ELSE LET f == FoldEntry(acc, smap, parse_line(Head(lines), BASE_URL).entry)
         IN  FoldLinesFrom(f.acc, f.smap, Tail(lines))

parse_species_list_html(lines, base_url) ==
    LET f == FoldLinesFrom(<<>>, <<>>, lines)
    IN  [accepted_species |-> BuildSynonymLists(f.acc, f.smap),
         synonym_map |-> f.smap]

-----------------------------------------------------------------------------
(* Chain Resolver: resolve_synonym of parser.py, one call a step:           *)
(* SpecResolve.  Its synonym_map maps a synonym to one name.                *)

NamePool == <<"a", "b", "c", "d", "e", "f">>

RNames == {NamePool[i] : i \in 1..NumNames}

SynonymMaps == UNION {[K -> RNames] : K \in SUBSET RNames}

\* The visited set of an outermost call that shares it with the calls before.
FreshVisited_shared(previous) == previous

\* if visited is None: visited = set()
FreshVisited(previous) == {}

\* The test "name in visited" never true.
InVisited_never(name, vis) == FALSE

\* if name in visited
InVisited(name, vis) == name \in vis

InitResolve ==
    /\ rmap \in SynonymMaps
    /\ rstart = "" /\ rname = "" /\ visited = {} /\ rresult = ""
    /\ links_map = <<>> /\ accepted_species_set = {}
    /\ pc = "idle"
    /\ line = <<>> /\ parsed = Ret(NoEntry, <<>>)
    /\ html = <<>> /\ line_num = 0 /\ accepted_species = <<>> /\ synonym_map = <<>>
    /\ log = <<>>

Frame ==
    UNCHANGED <<line, parsed, html, line_num, accepted_species, synonym_map, log, rmap,
                links_map, accepted_species_set>>

\* resolve_synonym(name, synonym_map)
ResolveCall ==
    /\ pc \in {"idle", "returned"}
    /\ \E n \in RNames :
         /\ rstart' = n
         /\ rname' = n
    /\ visited' = FreshVisited(visited)
    /\ pc' = "resolve"
    /\ UNCHANGED rresult
    /\ Frame

\* The circular walk returning the name it came from, not the one it met.
ReturnCircular_last_before ==
    /\ pc = "resolve"
    /\ InVisited(rname, visited)
    /\ rresult' = CHOOSE v \in visited : rmap[v] = rname
    /\ pc' = "returned"
    /\ UNCHANGED <<rstart, rname, visited>>
    /\ Frame

\* "Circular reference, return as-is"
ReturnCircular ==
    /\ pc = "resolve"
    /\ InVisited(rname, visited)
    /\ rresult' = rname
    /\ pc' = "returned"
    /\ UNCHANGED <<rstart, rname, visited>>
    /\ Frame

\* "This is the final accepted name"
ReturnFinal ==
    /\ pc = "resolve"
    /\ ~InVisited(rname, visited)
    /\ rname \notin DOMAIN rmap
    /\ rresult' = rname
    /\ pc' = "returned"
    /\ UNCHANGED <<rstart, rname, visited>>
    /\ Frame

\* The recursive call left out: the mapped name is returned at once.
ResolveStep_one_hop ==
    /\ pc = "resolve"
    /\ ~InVisited(rname, visited)
    /\ rname \in DOMAIN rmap
    /\ rresult' = rmap[rname]
    /\ pc' = "returned"
    /\ UNCHANGED <<rstart, rname, visited>>
    /\ Frame

\* visited.add(name); return resolve_synonym(synonym_map[name], synonym_map, visited)
ResolveStep ==
    /\ pc = "resolve"
    /\ ~InVisited(rname, visited)
    /\ rname \in DOMAIN rmap
    /\ visited' = visited \cup {rname}
    /\ rname' = rmap[rname]
    /\ UNCHANGED <<rstart, rresult, pc>>
    /\ Frame

Walk == ResolveStep \/ ReturnCircular \/ ReturnFinal

NextResolve == ResolveCall \/ ResolveStep \/ ReturnCircular \/ ReturnFinal

SpecResolve == InitResolve /\ [][NextResolve]_vars

\* A call that has begun goes on running.
SpecResolveFair == SpecResolve /\ WF_vars(Walk)

-----------------------------------------------------------------------------
(* Claims about parse_line (SpecParse) *)

Returned == pc = "parsed" /\ parsed.entry # NoEntry

\* The index of the first anchor of t that a </a> follows.
FirstLinkAt(t) ==
    CHOOSE i \in 1..Len(t) :
        /\ t[i] \in AnchorGlyphs /\ FindClose(t, i + 1) # 0
        /\ \A h \in 1..(i - 1) : ~(t[h] \in AnchorGlyphs /\ FindClose(t, h + 1) # 0)

\* The identifier in the target of the first link of the line.
FirstLinkIdentifier(t) == <<Href(t[FirstLinkAt(t)])[1]>>

\* The first word of the visible text of the line.
VisibleWords(t) == Split(strip_html_tags(t))

\* C1: every entry parse_line returns, of whatever type, has a non-empty
\* species_name, which is the identifier of the target of the first link of
\* the line.
C1_SpeciesNameFromFirstLink ==
    Returned =>
        /\ parsed.entry.species_name # <<>>
        /\ parsed.entry.species_name = FirstLinkIdentifier(line)

\* An accepted entry whose visible text names another species than its link.
C1_Witness ==
    /\ Returned
    /\ parsed.entry.entry_type = "ACCEPTED_SPECIES"
    /\ VisibleWords(line)[1] = <<"rubra">>
    /\ parsed.entry.species_name = <<"alba">>

\* The type the decision order of the Line Classifier gives a line.
TypeByPrecedence(t) ==
    LET v == strip_html_tags(t)
    IN  CASE SeeStart(v) # 0 -> "SYNONYM_SEE"
          [] SeeStart(v) = 0 /\ EqualsAt(v) # 0 -> "SYNONYM_EQUALS"
          [] SeeStart(v) = 0 /\ EqualsAt(v) = 0 /\ StartsWithLink(t) /\ is_hybrid(v)
               -> "ACCEPTED_HYBRID"
          [] SeeStart(v) = 0 /\ EqualsAt(v) = 0 /\ StartsWithLink(t) /\ ~is_hybrid(v)
               -> "ACCEPTED_SPECIES"
          [] OTHER -> "OTHER_LINK"

\* C2: parse_line classifies with first-match-wins precedence: "see", then
\* "=", then a leading link (hybrid or species), then other; a line with both
\* separators is a SYNONYM_SEE and a line that begins with the link and holds
\* "= " is a SYNONYM_EQUALS.
C2_FirstMatchWins ==
    Returned =>
        /\ parsed.entry.entry_type = TypeByPrecedence(line)
        /\ SeeStart(strip_html_tags(line)) # 0 => parsed.entry.entry_type = "SYNONYM_SEE"
        /\ (StartsWithLink(line) /\ SeeStart(strip_html_tags(line)) = 0
              /\ EqualsAt(strip_html_tags(line)) # 0)
             => parsed.entry.entry_type = "SYNONYM_EQUALS"

\* A line that begins with the link and holds both separators, "=" first.
C2_Witness ==
    /\ Returned
    /\ StartsWithLink(line)
    /\ EqualsAt(strip_html_tags(line)) # 0
    /\ SeeStart(strip_html_tags(line)) > EqualsAt(strip_html_tags(line))
    /\ parsed.entry.entry_type = "SYNONYM_SEE"

-----------------------------------------------------------------------------
(* Claims about the fold (SpecFold) *)

AcceptedTypes == {"ACCEPTED_SPECIES", "ACCEPTED_HYBRID"}
SynonymTypes == {"SYNONYM_EQUALS", "SYNONYM_SEE", "OTHER_LINK"}

\* A step that folds a line.
IsFoldStep == line_num' = line_num + 1

\* The records before the line folded last.
RecordsBefore == FoldLinesFrom(<<>>, <<>>, SubSeq(html, 1, line_num - 1)).acc

\* C3: an accepted entry for a name that has a record fills a missing author,
\* leaves a present author alone and ORs the hybrid flag in; over every step
\* no record loses its hybrid flag and no present author changes.
C3_AcceptedMerge ==
    [][\A i \in 1..Len(accepted_species) :
          LET old == accepted_species[i]
              new == accepted_species'[i]
              e == parsed'.entry
          IN  /\ Len(accepted_species') >= Len(accepted_species)
              /\ old.is_hybrid => new.is_hybrid
              /\ old.author # None => new.author = old.author
              /\ (IsFoldStep /\ e # NoEntry /\ e.entry_type \in AcceptedTypes
                    /\ e.species_name = old.name)
                   => /\ new.author = IF old.author = None THEN e.author ELSE old.author
                      /\ new.is_hybrid = (old.is_hybrid \/ e.is_hybrid)]_vars

\* An accepted hybrid entry with an author has just been folded into a
\* non-hybrid record that had another author.
C3_Witness ==
    /\ pc = "fold" /\ line_num >= 2
    /\ parsed.entry # NoEntry
    /\ parsed.entry.entry_type = "ACCEPTED_HYBRID"
    /\ parsed.entry.author # None
    /\ Has(RecordsBefore, parsed.entry.species_name)
    /\ LET old == RecordsBefore[IndexOf(RecordsBefore, parsed.entry.species_name)]
           new == accepted_species[IndexOf(accepted_species, parsed.entry.species_name)]
       IN  /\ old.author # None /\ old.author # parsed.entry.author /\ ~old.is_hybrid
           /\ new.author = old.author /\ new.is_hybrid

MappingsOf(smap, key) == IF Has(smap, key) THEN smap[IndexOf(smap, key)].mappings ELSE <<>>

IsPrefix(s, t) == Len(s) <= Len(t) /\ SubSeq(t, 1, Len(s)) = s

\* The items an entry states for the synonym key, in the order of the entry.
RECURSIVE ItemsFor(_, _, _)
ItemsFor(syns, key, accepted_name) ==
    IF syns = <<>> THEN <<>>
    ELSE (IF Head(syns).name = key
          THEN <<[accepted_name |-> accepted_name, synonym_author |-> Head(syns).author]>>
          ELSE <<>>) \o ItemsFor(Tail(syns), key, accepted_name)

C5_ReferentialIntegrity ==
    \A i \in 1..Len(synonym_map) :
        \A j \in 1..Len(synonym_map[i].mappings) :
            Has(accepted_species, synonym_map[i].mappings[j].accepted_name)

\* A synonym entry was folded first and made the record of its accepted name.
C5_Witness ==
    /\ pc = "fold" /\ line_num = 1
    /\ parsed.entry # NoEntry
    /\ parsed.entry.entry_type \in SynonymTypes
    /\ synonym_map # <<>>
    /\ Len(accepted_species) = 1
    /\ accepted_species[1].name = synonym_map[1].mappings[1].accepted_name

\* C6: after the final step no record carries two synonym sub-entries of the
\* same name.
C6_SubEntriesUniqueByName ==
    pc = "done" =>
        \A r \in 1..Len(accepted_species) :
            \A i, j \in 1..Len(accepted_species[r].synonyms) :
                i # j => accepted_species[r].synonyms[i].name
                           # accepted_species[r].synonyms[j].name

\* C7: folding the lines followed by themselves gives the records and the
\* synonym mapping that folding them once gives.
C7_FoldTwiceSameResult ==
    pc = "done" =>
        parse_species_list_html(html \o html, BASE_URL)
          = [accepted_species |-> accepted_species, synonym_map |-> synonym_map]

-----------------------------------------------------------------------------
(* Claims about resolve_synonym (SpecResolve, SpecResolveFair) *)

\* The name k hops of the map away from n; a name that is no key stays.
RECURSIVE Follow(_, _)
Follow(n, k) ==
    IF k = 0 \/ n \notin DOMAIN rmap THEN n ELSE Follow(rmap[n], k - 1)

Reach(n) == {Follow(n, k) : k \in 0..Cardinality(DOMAIN rmap)}

\* No walk of the map comes back to a name: every key is left for good
\* after as many hops as there are keys.
Acyclic == \A n \in DOMAIN rmap : Follow(n, Cardinality(DOMAIN rmap)) \notin DOMAIN rmap

\* C8: on a mapping without cycles resolve_synonym returns the one name
\* reached from its argument that is no key of the mapping, the argument
\* itself when it is no key.
C8_UltimateAcceptedName ==
    (pc = "returned" /\ Acyclic) =>
        /\ {x \in Reach(rstart) : x \notin DOMAIN rmap} = {rresult}
        /\ rstart \notin DOMAIN rmap => rresult = rstart

\* A chain of two hops was resolved.
C8_Witness ==
    /\ pc = "returned" /\ Acyclic
    /\ rstart \in DOMAIN rmap
    /\ rmap[rstart] \in DOMAIN rmap
    /\ rresult = rmap[rmap[rstart]]
    /\ rresult \notin {rstart, rmap[rstart]}

\* C9: every call of resolve_synonym returns, whatever the mapping, cycles
\* and self-loops included.
C9_Terminates == (pc = "resolve") ~> (pc = "returned")

\* A walk that ran into a cycle of two or more names has returned.
C9_Witness ==
    /\ pc = "returned"
    /\ rname \in visited
    /\ rmap[rname] # rname
    /\ Cardinality(visited) >= 2

\* The walk from n is k hops long when it first meets a name again.
RecursAt(n, k) ==
    /\ \A i \in 0..(k - 1) : Follow(n, i) \in DOMAIN rmap
    /\ \A i, j \in 0..(k - 1) : i # j => Follow(n, i) # Follow(n, j)
    /\ \E j \in 0..(k - 1) : Follow(n, j) = Follow(n, k)

\* C10: a walk that meets a name it has visited returns that name, the
\* visited set holding the names of this walk only; the result is a function
\* of the mapping and the argument.
C10_ReturnsRecurringName ==
    pc = "returned" =>
        \A k \in 1..NumNames :
            RecursAt(rstart, k) =>
                /\ rresult = Follow(rstart, k)
                /\ visited = {Follow(rstart, i) : i \in 0..(k - 1)}

\* resolve("a") on {a -> b, b -> a} returned "a".
C10_Witness ==
    /\ pc = "returned"
    /\ DOMAIN rmap = {"a", "b"} /\ rmap["a"] = "b" /\ rmap["b"] = "a"
    /\ rstart = "a"
    /\ rresult = "a"
    /\ visited = {"a", "b"}

\* C11: a call of resolve_synonym hands log_inconsistency exactly one note
\* when its walk meets a name it has visited, on the step that returns, and
\* no step of a walk that meets none hands it any.
C11_CycleNoteEmitted ==
    [][IF pc = "resolve" /\ pc' = "returned" /\ rname \in visited
       THEN log' = Append(log, "circular_reference")
       ELSE log' = log]_vars

-----------------------------------------------------------------------------
(* Claims about the final step of the fold (SpecFold) *)

\* The accepted names the synonym mapping gives the name n.
Targets(smap, n) ==
    {MappingsOf(smap, n)[j].accepted_name : j \in 1..Len(MappingsOf(smap, n))}

\* The names exactly k hops of the synonym mapping away from n.
RECURSIVE Hops(_, _, _)
Hops(smap, n, k) ==
    IF k = 0 THEN {n}
    ELSE UNION {Targets(smap, m) : m \in Hops(smap, n, k - 1)}

SubEntryNames(rec) == {rec.synonyms[i].name : i \in 1..Len(rec.synonyms)}

\* C12: after the final step a synonym that reaches, in two hops or more of
\* the synonym mapping, a name with a record that is no synonym itself is
\* among the sub-entries of that record.
C12_ChainsFlattened ==
    pc = "done" =>
        \A i \in 1..Len(synonym_map) :
            \A k \in 2..(Len(synonym_map) + 1) :
                \A a \in Hops(synonym_map, synonym_map[i].name, k) :
                    (Has(accepted_species, a) /\ ~Has(synonym_map, a))
                      => synonym_map[i].name
                           \in SubEntryNames(accepted_species[IndexOf(accepted_species, a)])

\* The line t holds a link: an anchor to a name page that a </a> follows.
HasLink(t) == \E i \in 1..Len(t) : t[i] \in AnchorGlyphs /\ FindClose(t, i + 1) # 0

\* C13: a line without a link is skipped: parse_line returns no entry and
\* hands log_inconsistency nothing, and folding the line leaves the records,
\* the synonym mapping and the notes as they were.
C13_NoLinkLineSkipped ==
    [][(IsFoldStep /\ ~HasLink(html[line_num + 1]))
         => /\ parsed' = Ret(NoEntry, <<>>)
            /\ accepted_species' = accepted_species
            /\ synonym_map' = synonym_map
            /\ log' = log]_vars

\* A line with "=" and no link was folded after lines that made records,
\* mappings and notes.
C13_Witness ==
    /\ pc = "fold" /\ line_num = 3
    /\ ~HasLink(line)
    /\ EqualsAt(line) # 0
    /\ parsed.entry = NoEntry
    /\ accepted_species # <<>> /\ synonym_map # <<>> /\ log # <<>>
    /\ accepted_species = RecordsBefore

-----------------------------------------------------------------------------
(* Claims about parse_line and its parsers (SpecParse) *)

\* The targets of the links of the line.
LinkTargets(t) ==
    {t[i] : i \in {j \in 1..Len(t) : t[j] \in AnchorGlyphs /\ FindClose(t, j + 1) # 0}}

DistinctTargets(t) == Cardinality(LinkTargets(t)) > 1

\* The number of notes of the kind among the notes.
Count(notes, kind) == Len(SelectSeq(notes, LAMBDA n : n = kind))

\* The target of the first link of the line names a species.
FirstLinkHasIdentifier(t) == Len(Href(t[FirstLinkAt(t)])) = 1

RightOfEquals(t) ==
    LET v == strip_html_tags(t)
    IN  Split(SubSeq(v, EqualsAt(v) + 1, Len(v)))

\* The right-hand side begins with a standalone "x" that a word follows.
LeadingX(words) == Len(words) >= 2 /\ LowerWord(words[1]) = <<"x">>

\* C15: in a SYNONYM_EQUALS entry whose right-hand side begins with a
\* standalone "x" (any case) that a word follows, the accepted name read
\* from the text, the one compared with the link, is the second word and the
\* author the words after it; otherwise they are the first word and the
\* words after it.
C15_LeadingXSkipped ==
    (Returned /\ parsed.entry.entry_type = "SYNONYM_EQUALS") =>
        LET words == RightOfEquals(line)
            k == IF LeadingX(words) THEN 2 ELSE 1
        IN  /\ parsed.entry.author = Rest(words, k + 1)
            /\ Count(parsed.notes, "synonym_target_mismatch") =
                  IF Len(words) >= k /\ Mismatch(words[k], parsed.entry.species_name)
                  THEN 1 ELSE 0

\* "rubra = X Alba rubra Alba" with the link to alba: no mismatch, author
\* "rubra Alba".
C15_Witness ==
    /\ Returned
    /\ parsed.entry.entry_type = "SYNONYM_EQUALS"
    /\ LeadingX(RightOfEquals(line))
    /\ RightOfEquals(line)[1] = <<"X">>
    /\ RightOfEquals(line)[2] = <<"Alba">>
    /\ parsed.entry.species_name = <<"alba">>
    /\ parsed.entry.author = << <<"rubra">>, <<"Alba">> >>
    /\ parsed.notes = <<>>

\* The comma-separated segments left of the "see" separator that hold a word,
\* each as its words.
SegmentsLeftOfSee(t) ==
    LET v == strip_html_tags(t)
        pieces == SplitComma(SubSeq(v, 1, SeeStart(v) - 1))
    IN  SelectSeq([i \in 1..Len(pieces) |-> Split(pieces[i])], LAMBDA w : w # <<>>)

\* C16: a SYNONYM_SEE entry has one synonym sub-entry for each non-empty
\* comma-separated segment left of the "see" separator, in the order of the
\* segments and with duplicates, the name being the first word of the
\* segment and the author its other words, None if there are none.
C16_OneSubEntryPerSegment ==
    (Returned /\ parsed.entry.entry_type = "SYNONYM_SEE") =>
        LET segments == SegmentsLeftOfSee(line)
        IN  /\ Len(parsed.entry.synonyms) = Len(segments)
            /\ \A i \in 1..Len(segments) :
                  /\ parsed.entry.synonyms[i].name = segments[i][1]
                  /\ parsed.entry.synonyms[i].author =
                        IF Len(segments[i]) > 1
                        THEN SubSeq(segments[i], 2, Len(segments[i])) ELSE None

\* "rubra Michx., , rubra : see Alba Alba": three segments, one empty and two
\* of the same name, gave the sub-entries {rubra, Michx.} and {rubra, None}.
C16_Witness ==
    /\ Returned
    /\ parsed.entry.entry_type = "SYNONYM_SEE"
    /\ Cardinality({i \in 1..Len(line) : line[i] = ","}) = 2
    /\ parsed.entry.synonyms =
          <<Syn(<<"rubra">>, << <<"Michx.">> >>), Syn(<<"rubra">>, None)>>

\* C18: an ACCEPTED_HYBRID entry whose visible text is "×", the name, "(x)"
\* and then the author has the name of its link, is_hybrid true and for
\* author the words after the "(x)": no marker is part of the author.
C18_HybridAuthorWithoutMarkers ==
    LET words == VisibleWords(line)
    IN  (Returned /\ parsed.entry.entry_type = "ACCEPTED_HYBRID"
           /\ Len(words) >= 3 /\ words[1] = <<"×">> /\ LowerWord(words[3]) = <<"(x)">>)
          => /\ parsed.entry.species_name = FirstLinkIdentifier(line)
             /\ parsed.entry.is_hybrid
             /\ parsed.entry.author = Rest(words, 4)

-----------------------------------------------------------------------------
(* Claims about the result of parse_species_list_html (SpecFold) *)

\* The synonyms a line names left of its "=" or "see" separator, as
\* {name, author} pairs; none for a line of another kind.
NamedSynonyms(t) ==
    LET v == strip_html_tags(t)
        left == Split(SubSeq(v, 1, EqualsAt(v) - 1))
        segments == SegmentsLeftOfSee(t)
    IN  IF SeeStart(v) # 0
        THEN [i \in 1..Len(segments) |-> Syn(segments[i][1], Rest(segments[i], 2))]
        ELSE IF EqualsAt(v) # 0 /\ left # <<>>
        THEN <<Syn(left[1], Rest(left, 2))>>
        ELSE <<>>

\* The line states synonyms of a name: it holds a link with an identifier.
StatesSynonyms(t) == HasLink(t) /\ FirstLinkHasIdentifier(t)

SubEntries(rec) == {rec.synonyms[i] : i \in 1..Len(rec.synonyms)}

\* The record the line "Alba" linked to alba makes, with the synonyms given.
AlbaRecord(synonyms) ==
    [name |-> <<"alba">>, author |-> None, url |-> urljoin(BASE_URL, "<a:alba>"),
     is_hybrid |-> FALSE, synonyms |-> synonyms]

\* C17: after the final step every synonym a line names left of "=" or
\* "see" is a {name, author} sub-entry of the record of the name the line
\* links to, wherever that record came from; the accepted line for alba and
\* then "rubra = alba" give the one record alba with synonyms [{rubra, None}],
\* as "rubra = alba" alone does.
C17_SynonymsReachRecord ==
    pc = "done" =>
        /\ \A i \in 1..Len(html) :
              StatesSynonyms(html[i]) =>
                  \A j \in 1..Len(NamedSynonyms(html[i])) :
                      /\ Has(accepted_species, FirstLinkIdentifier(html[i]))
                      /\ NamedSynonyms(html[i])[j] \in
                            SubEntries(accepted_species[
                                IndexOf(accepted_species, FirstLinkIdentifier(html[i]))])
        /\ html \in {<<Render(<<"LA">>), Render(<<"rubra", "=", "LA">>)>>,
                      <<Render(<<"rubra", "=", "LA">>)>>}
             => accepted_species = <<AlbaRecord(<<Syn(<<"rubra">>, None)>>)>>

\* The accepted line for alba and then "rubra, Alba : see alba rubra" were
\* folded: the record of alba, made by the first line, has both synonyms.
C17_Witness ==
    /\ pc = "done"
    /\ html = <<Render(<<"LA">>),
                Render(<<"rubra", ",", "Alba", ":see", "LA", "rubra">>)>>
    /\ accepted_species =
          <<AlbaRecord(<<Syn(<<"rubra">>, None), Syn(<<"Alba">>, None)>>)>>

\* The place of a name of the fold lines in the order of the strings.
NameRank(name) ==
    CASE name = <<"alba">> -> 1
      [] name = <<"nigra">> -> 2
      [] name = <<"rubra">> -> 3

\* C19: the records parse_species_list_html returns are sorted by name.
C19_RecordsSortedByName ==
    pc = "done" =>
        \A i, j \in 1..Len(accepted_species) :
            i < j => NameRank(accepted_species[i].name) < NameRank(accepted_species[j].name)

-----------------------------------------------------------------------------
(* Claim about both parsers (SpecParse) *)

EntryTypes ==
    {"ACCEPTED_SPECIES", "ACCEPTED_HYBRID", "SYNONYM_EQUALS", "SYNONYM_SEE", "OTHER_LINK"}

\* C20: no line makes a parser raise: parse_line ends in an entry of one of
\* the five types or in a skip, and the pass over the links of the page does
\* not raise either.
C20_NoLineRaises ==
    /\ pc # "raised"
    /\ pc = "parsed" => (parsed.entry = NoEntry \/ parsed.entry.entry_type \in EntryTypes)

-----------------------------------------------------------------------------
(* Claims about the entries and the records made of them *)

\* The line is one parse_line hands to parse_other_link: its first link
\* names a species and it has no separator and does not begin with the link.
ClassifiedOther(t) ==
    HasLink(t) /\ FirstLinkHasIdentifier(t) /\ TypeByPrecedence(t) = "OTHER_LINK"

\* The places of the words that are the name, whatever the case of their
\* letters.
NamePlaces(words, name) ==
    {i \in 1..Len(words) : LowerWord(words[i]) = LowerWord(name)}

\* C21: the step that parses a line classified Other always gives an
\* OTHER_LINK entry with the name of the link; without a word that is the
\* name the author is None and one note is handed over, with one the author
\* is the words after the first such word and no note is; folding the entry
\* makes a record of the name.
C21_OtherNeverDiscarded ==
    [][(pc' = "parsed" /\ ClassifiedOther(line)) =>
          /\ parsed'.entry # NoEntry
          /\ parsed'.entry.entry_type = "OTHER_LINK"
          /\ parsed'.entry.species_name = FirstLinkIdentifier(line)
          /\ LET words == VisibleWords(line)
                 places == NamePlaces(words, parsed'.entry.species_name)
                 first == CHOOSE i \in places : \A h \in places : i <= h
             IN  /\ places = {} =>
                       /\ parsed'.entry.author = None
                       /\ Count(parsed'.notes, "other_link_name_not_found") = 1
                 /\ places # {} =>
                       /\ parsed'.entry.author =
                             IF first < Len(words)
                             THEN SubSeq(words, first + 1, Len(words)) ELSE None
                       /\ Count(parsed'.notes, "other_link_name_not_found") = 0
          /\ Has(FoldEntry(<<>>, <<>>, parsed'.entry).acc, parsed'.entry.species_name)
      ]_vars

\* A line with words and a link to alba in mid-line, none of the words being
\* alba: the entry has no author and the note was handed over.
C21_Witness ==
    /\ pc = "parsed" /\ ClassifiedOther(line)
    /\ Len(VisibleWords(line)) >= 2
    /\ NamePlaces(VisibleWords(line), FirstLinkIdentifier(line)) = {}
    /\ parsed.entry.entry_type = "OTHER_LINK"
    /\ parsed.entry.species_name = <<"alba">>
    /\ parsed.entry.author = None
    /\ parsed.notes = <<"other_link_name_not_found">>

\* The words right of the "see" separator.
RightOfSee(t) ==
    LET v == strip_html_tags(t)
    IN  Split(SubSeq(v, SeeMatchEnd(v, SeeStart(v)), Len(v)))

\* The name the statement of the line gives as the accepted one: the first
\* word right of the separator, the second after a standalone "x".
StatedAccepted(t, entry_type) ==
    LET words == IF entry_type = "SYNONYM_SEE" THEN RightOfSee(t) ELSE RightOfEquals(t)
        k == IF entry_type = "SYNONYM_EQUALS" /\ LeadingX(words) THEN 2 ELSE 1
    IN  IF Len(words) >= k THEN words[k] ELSE None

\* The mapping holds the item key -> accepted_name, with whatever author.
Maps(smap, key, accepted_name) ==
    \E i \in 1..Len(MappingsOf(smap, key)) :
        MappingsOf(smap, key)[i].accepted_name = accepted_name

\* C22: when the name stated as the accepted one in an "=" or "see"
\* statement is in a link to the page of another name, a note is handed over
\* and the page made of the line ends with both mappings: each synonym of the
\* statement -> the stated name, and the stated name -> the name of the link.
C22_ChainBothMappingsKept ==
    (/\ Returned
     /\ parsed.entry.entry_type \in {"SYNONYM_EQUALS", "SYNONYM_SEE"}
     /\ parsed.entry.synonyms # <<>>
     /\ StatedAccepted(line, parsed.entry.entry_type) # None
     /\ LowerWord(StatedAccepted(line, parsed.entry.entry_type))
           # LowerWord(FirstLinkIdentifier(line))) =>
        LET stated == StatedAccepted(line, parsed.entry.entry_type)
            smap == parse_species_list_html(<<line>>, BASE_URL).synonym_map
        IN  /\ parsed.notes # <<>>
            /\ Maps(smap, stated, FirstLinkIdentifier(line))
            /\ \A i \in 1..Len(parsed.entry.synonyms) :
                  Maps(smap, parsed.entry.synonyms[i].name, stated)

\* The authors the lines give for the name, in the order of the lines, the
\* absent ones left out.
AuthorsSupplied(lines, name) ==
    LET entries == [i \in 1..Len(lines) |-> parse_line(lines[i], BASE_URL).entry]
        refer == SelectSeq(entries, LAMBDA e :
                     e # NoEntry /\ e.species_name = name /\ e.author # None)
    IN  [i \in 1..Len(refer) |-> refer[i].author]

\* C23: after the final step the author of every record is the first author
\* that a line with an entry of that name, of whatever type, supplied, None
\* if no such line supplied one.
C23_FirstAuthorWins ==
    pc = "done" =>
        \A i \in 1..Len(accepted_species) :
            LET authors == AuthorsSupplied(html, accepted_species[i].name)
            IN  accepted_species[i].author =
                    IF authors = <<>> THEN None ELSE authors[1]

\* The record the page made of the one line t has for the name of its link.
RecordOfLine(t) ==
    LET acc == parse_species_list_html(<<t>>, BASE_URL).accepted_species
    IN  acc[IndexOf(acc, FirstLinkIdentifier(t))]

\* C24: a SYNONYM_EQUALS entry whose right-hand side begins with a
\* standalone "x" that a name follows has is_hybrid true, and so has the
\* record the line creates.
C24_LeadingXMarksHybrid ==
    (/\ Returned
     /\ parsed.entry.entry_type = "SYNONYM_EQUALS"
     /\ LeadingX(RightOfEquals(line))) =>
        /\ parsed.entry.is_hybrid
        /\ RecordOfLine(line).is_hybrid

\* C25: a line that begins with its link, has no separator and no marker,
\* and whose visible text begins with a standalone "x" that a word follows
\* gives an ACCEPTED_HYBRID entry with is_hybrid true: the word after the "x"
\* is the one compared with the name of the link and the words after it are
\* the author.
C25_LeadingXAcceptedHybrid ==
    (/\ Returned
     /\ TypeByPrecedence(line) = "ACCEPTED_SPECIES"
     /\ LeadingX(VisibleWords(line))) =>
        LET words == VisibleWords(line)
        IN  /\ parsed.entry.entry_type = "ACCEPTED_HYBRID"
            /\ parsed.entry.is_hybrid
            /\ parsed.entry.author = Rest(words, 3)
            /\ parsed.notes # <<>> <=> Mismatch(words[2], parsed.entry.species_name)

\* The names of the records.
RecordNames(acc) == {acc[i].name : i \in 1..Len(acc)}

\* The records after folding next the entry e given another name or url.
FoldedWith(e, field, value) ==
    FoldEntry(accepted_species', synonym_map',
              IF field = "name" THEN [e EXCEPT !.species_name = value]
              ELSE [e EXCEPT !.url = value]).acc

\* C26: every step keeps each record at its place with its name and url;
\* folding a line that gives an entry, of whatever type, adds at most the
\* record of the name of that entry, which then exists with the url of the
\* entry if it is new; no two records have the same name.  Names are told
\* apart by case: folding the entry again as "Alba" adds a record, folding it
\* again with another url changes no url.
C26_RecordsOnlyGrow ==
    [][/\ Len(accepted_species') >= Len(accepted_species)
       /\ \A i \in 1..Len(accepted_species) :
             /\ accepted_species'[i].name = accepted_species[i].name
             /\ accepted_species'[i].url = accepted_species[i].url
       /\ \A i, j \in 1..Len(accepted_species') :
             accepted_species'[i].name = accepted_species'[j].name => i = j
       /\ IsFoldStep /\ parsed'.entry = NoEntry =>
             accepted_species' = accepted_species
       /\ ~IsFoldStep => RecordNames(accepted_species') = RecordNames(accepted_species)
       /\ IsFoldStep /\ parsed'.entry # NoEntry =>
             LET e == parsed'.entry
                 n == Len(accepted_species')
             IN  /\ RecordNames(accepted_species') =
                       RecordNames(accepted_species) \cup {e.species_name}
                 /\ e.species_name \notin RecordNames(accepted_species) =>
                       /\ n = Len(accepted_species) + 1
                       /\ accepted_species'[n].name = e.species_name
                       /\ accepted_species'[n].url = e.url
                 /\ Len(FoldedWith(e, "name", <<"Alba">>)) = n + 1
                 /\ LET again == FoldedWith(e, "url", urljoin(BASE_URL, "<a:alba.b>"))
                    IN  /\ Len(again) = n
                        /\ \A i \in 1..n : again[i].url = accepted_species'[i].url
      ]_vars

\* Three lines of three types were folded, the second of them for a name
\* that had a record: two records, the first sighting of each name.
C26_Witness ==
    /\ pc = "done"
    /\ Len(html) = 3
    /\ parse_line(html[1], BASE_URL).entry.entry_type = "SYNONYM_EQUALS"
    /\ parse_line(html[2], BASE_URL).entry.entry_type = "ACCEPTED_SPECIES"
    /\ parse_line(html[3], BASE_URL).entry.entry_type = "OTHER_LINK"
    /\ parse_line(html[1], BASE_URL).entry.species_name = <<"rubra">>
    /\ parse_line(html[2], BASE_URL).entry.species_name = <<"rubra">>
    /\ parse_line(html[3], BASE_URL).entry.species_name = <<"alba">>
    /\ Len(accepted_species) = 2
    /\ accepted_species[1].name = <<"rubra">>
    /\ accepted_species[2].name = <<"alba">>

\* C27: folding a SYNONYM_EQUALS, SYNONYM_SEE or OTHER_LINK entry for a name
\* that has a record leaves every record as it was, author, url and hybrid
\* flag included, whatever author and hybrid flag the entry has; the step
\* changes the synonym mapping only, by the synonyms of the entry.
C27_SynonymEntryLeavesRecord ==
    [][(/\ IsFoldStep
        /\ parsed'.entry # NoEntry
        /\ parsed'.entry.entry_type \in SynonymTypes
        /\ Has(accepted_species, parsed'.entry.species_name)) =>
           /\ accepted_species' = accepted_species
           /\ synonym_map' =
                 AddSynonyms(synonym_map, parsed'.entry.synonyms,
                             parsed'.entry.species_name)
      ]_vars

\* After the line "rubra", which made the record rubra without author, the
\* line "rubra Alba = rubra (x)" was folded: its entry has an author and is
\* a hybrid, the record has no author and is none.
C27_Witness ==
    /\ pc = "fold" /\ line_num = 2
    /\ parsed.entry # NoEntry
    /\ parsed.entry.entry_type = "SYNONYM_EQUALS"
    /\ parsed.entry.author # None
    /\ parsed.entry.is_hybrid
    /\ Has(RecordsBefore, parsed.entry.species_name)
    /\ Len(accepted_species) = 1
    /\ accepted_species[1].name = parsed.entry.species_name
    /\ accepted_species[1].author = None
    /\ ~accepted_species[1].is_hybrid
    /\ synonym_map # <<>>

-----------------------------------------------------------------------------
(* Claims about repeated calls of resolve_synonym (SpecResolve) *)

\* Some walk of one hop or more from n comes back to n.
OnCycle(n) == \E k \in 1..Cardinality(DOMAIN rmap) : Follow(n, k) = n

\* C28: a call of resolve_synonym returns a name its argument reaches that
\* is no key of the mapping or lies on a cycle; for an argument on a cycle it
\* returns the argument; called on the result of the call before, it returns
\* that result again.
C28_ResolveIdempotent ==
    [][(pc = "resolve" /\ pc' = "returned") =>
          /\ rresult' \in Reach(rstart)
          /\ rresult' \notin DOMAIN rmap \/ OnCycle(rresult')
          /\ OnCycle(rstart) => rresult' = rstart
          /\ rstart = rresult => rresult' = rresult
      ]_vars

\* A call on a name off the cycle returned a name of the cycle, and the call
\* on that result has walked the cycle of two names or more back to it.
C28_Witness ==
    /\ pc = "resolve"
    /\ rresult = rstart
    /\ rname = rstart
    /\ Cardinality(visited) >= 2
    /\ \E n \in DOMAIN rmap : ~OnCycle(n) /\ rmap[n] = rstart

-----------------------------------------------------------------------------
(* Claims about the result of the fold (SpecFold) *)

\* The sum of the numbers of a sequence.
RECURSIVE Sum(_)
Sum(numbers) == IF numbers = <<>> THEN 0 ELSE Head(numbers) + Sum(Tail(numbers))

\* The number of sub-entries of all records, and of items of all keys.
TotalSubEntries(acc) == Sum([i \in 1..Len(acc) |-> Len(acc[i].synonyms)])

TotalItems(smap) == Sum([i \in 1..Len(smap) |-> Len(smap[i].mappings)])

\* How many sub-entries of the record are sub.
SubEntryCount(rec, sub) == Len(SelectSeq(rec.synonyms, LAMBDA y : y = sub))

\* How many items of the mapping state sub as a synonym of accepted_name.
ItemCount(smap, accepted_name, sub) ==
    Len(SelectSeq(MappingsOf(smap, sub.name),
                  LAMBDA m : m.accepted_name = accepted_name
                             /\ m.synonym_author = sub.author))

\* C29: after the final step every record has each sub-entry as often as the
\* synonym mapping has the item of that synonym, author and accepted name,
\* and there are as many sub-entries as items in all; no key of the mapping
\* is empty and no key has an empty list.
C29_SubEntriesMatchItems ==
    pc = "done" =>
        /\ \A i \in 1..Len(accepted_species) :
              \A sub \in SubEntries(accepted_species[i]) :
                  SubEntryCount(accepted_species[i], sub) =
                      ItemCount(synonym_map, accepted_species[i].name, sub)
        /\ TotalSubEntries(accepted_species) = TotalItems(synonym_map)
        /\ \A i \in 1..Len(synonym_map) :
              /\ synonym_map[i].name # None
              /\ synonym_map[i].mappings # <<>>

\* A page with the line "= Alba", whose synonym has no name, and two lines
\* that state the same synonym of another name: two items and two
\* sub-entries, the same twice, and two records.
C29_Witness ==
    /\ pc = "done"
    /\ \E i \in 1..Len(html) :
          LET e == parse_line(html[i], BASE_URL).entry
          IN  e # NoEntry /\ e.synonyms # <<>> /\ e.synonyms[1].name = None
    /\ TotalItems(synonym_map) = 2
    /\ \E i \in 1..Len(accepted_species) :
          \E sub \in SubEntries(accepted_species[i]) :
              SubEntryCount(accepted_species[i], sub) = 2
    /\ Len(accepted_species) = 2

\* The lines of the set S, each once, in an order that depends on S only.
RECURSIVE Listing(_)
Listing(S) ==
    IF S = {} THEN <<>>
    ELSE LET l == CHOOSE x \in S : TRUE
         IN  <<l>> \o Listing(S \ {l})

\* The lines of the page in the order of the listing, each as often as the
\* page has it: one order for all the permutations of the page.
RECURSIVE InOrderOf(_, _)
InOrderOf(listing, lines) ==
    IF listing = <<>> THEN <<>>
    ELSE SelectSeq(lines, LAMBDA l : l = Head(listing))
         \o InOrderOf(Tail(listing), lines)

Canonical(lines) == InOrderOf(Listing(FoldLines), lines)

\* How many items of the key are item.
MappingCount(smap, key, item) ==
    Len(SelectSeq(MappingsOf(smap, key), LAMBDA m : m = item))

\* The two mappings have the same keys and each key the same items as often.
SameMappings(a, b) ==
    /\ RecordNames(a) = RecordNames(b)
    /\ \A i \in 1..Len(a) :
          /\ Len(a[i].mappings) = Len(MappingsOf(b, a[i].name))
          /\ \A j \in 1..Len(a[i].mappings) :
                MappingCount(a, a[i].name, a[i].mappings[j]) =
                    MappingCount(b, a[i].name, a[i].mappings[j])

\* C30: the lines of the page folded in the order that all permutations of
\* the page share give records of the same names and, for every synonym,
\* the same items as often: so do any two orders of the lines.
C30_OrderIndependent ==
    pc = "done" =>
        LET other == parse_species_list_html(Canonical(html), BASE_URL)
        IN  /\ RecordNames(other.accepted_species) = RecordNames(accepted_species)
            /\ SameMappings(other.synonym_map, synonym_map)

\* A page of three lines that state one synonym of two names: in the shared
\* order the records and the items of the synonym come in another order.
C30_Witness ==
    /\ pc = "done"
    /\ Len(html) = 3
    /\ Canonical(html) # html
    /\ \E i \in 1..Len(synonym_map) :
          /\ Len(synonym_map[i].mappings) >= 2
          /\ synonym_map[i].mappings[1].accepted_name
                # synonym_map[i].mappings[2].accepted_name
    /\ LET other == parse_species_list_html(Canonical(html), BASE_URL)
       IN  /\ other.synonym_map # synonym_map
           /\ [i \in 1..Len(other.accepted_species) |-> other.accepted_species[i].name]
                 # [i \in 1..Len(accepted_species) |-> accepted_species[i].name]

====
